---- MODULE Spec2Model ----
(***************************************************************************)
(* CanvasAI AI services (src/ai/main.py): a FastAPI application with two   *)
(* GET routes and five POST handlers that return mock data.  The handlers  *)
(* contain no await, so each one runs to completion on the event loop:     *)
(* one action per handler.  The only object shared between requests is the *)
(* module logger, modelled as the append-only sequence log.                *)
(*                                                                         *)
(* Strings that the code only copies or concatenates are TLA+ strings.     *)
(* Base64 payloads are sequences of one-character strings so that split,   *)
(* b64decode and b64encode can be computed character by character.         *)
(* Formatted text whose fields a property inspects (the SVG document) is a *)
(* sequence of pieces: literal segments and formatted fields.              *)
(***************************************************************************)
EXTENDS Integers, Sequences, FiniteSets, TLC

VARIABLES req, resp, log

vars == <<req, resp, log>>

-----------------------------------------------------------------------------
(* Bounds of the model. *)

\* Longest base64 payload of a /ai/trace request.
MaxLen == 5
\* Longest image payload of a /ai/inpaint request.
MaxImageLen == 4
\* Longest mask payload of a /ai/inpaint request.
MaxMaskLen == 2
\* count and limit range over -MaxCount .. MaxCount.
MaxCount == 7
\* Number of distinct addresses the allocator may hand out for a BytesIO.
NumAddrs == 2
\* Number of connections the server multiplexes.
NumClients == 2
\* Log entries after which the server specification accepts no new request.
MaxLog == 4

-----------------------------------------------------------------------------
(* Generic helpers. *)

Min(a, b) == IF a <= b THEN a ELSE b

Max(a, b) == IF a >= b THEN a ELSE b

\* All sequences over S of length at most n.
SeqsUpTo(S, n) == UNION {[1..k -> S] : k \in 0..n}

\* A slice that treats a negative bound as zero.
SliceToClamped(seq, n) == SubSeq(seq, 1, Min(Max(n, 0), Len(seq)))

\* Python slice seq[:n] (n may be negative or exceed the length).
SliceTo(seq, n) ==
    LET stop == IF n < 0 THEN Max(Len(seq) + n, 0) ELSE Min(n, Len(seq))
    IN  SubSeq(seq, 1, stop)

\* Python range(n) as the sequence <<0, ..., n-1>> (empty when n <= 0).
Range(n) == [i \in 1..Max(n, 0) |-> i - 1]

\* Optional[str]: <<>> is None, <<s>> is the string s.
None == <<>>

Some(s) == <<s>>

\* Python truthiness of an Optional[str].
Truthy(opt) == opt # None /\ opt[1] # ""

-----------------------------------------------------------------------------
(* base64 (the standard library, non-strict mode as main.py calls it). *)

B64Alphabet ==
    << "A","B","C","D","E","F","G","H","I","J","K","L","M","N","O","P",
       "Q","R","S","T","U","V","W","X","Y","Z","a","b","c","d","e","f",
       "g","h","i","j","k","l","m","n","o","p","q","r","s","t","u","v",
       "w","x","y","z","0","1","2","3","4","5","6","7","8","9","+","/" >>

IsB64(ch) == \E i \in 1..64 : B64Alphabet[i] = ch

B64Val(ch) == (CHOOSE i \in 1..64 : B64Alphabet[i] = ch) - 1

\* One pass of binascii.a2b_base64: characters outside the alphabet are
\* skipped, a completed pad sequence ends the scan, and leftover characters
\* at the end of the input raise binascii.Error.
RECURSIVE A2B(_, _, _, _, _, _)
A2B(s, i, quad, left, pads, out) ==
    IF i > Len(s)
    THEN IF quad = 0
         THEN [ok |-> TRUE, bytes |-> out]
         ELSE IF quad = 1
         THEN [ok |-> FALSE,
               error |-> "Invalid base64-encoded string: number of data characters ("
                         \o ToString((Len(out) \div 3) * 4 + 1)
                         \o ") cannot be 1 more than a multiple of 4"]
         ELSE [ok |-> FALSE, error |-> "Incorrect padding"]
    ELSE LET ch == s[i] IN
         IF ch = "="
         THEN IF quad >= 2 /\ quad + pads + 1 >= 4
              THEN [ok |-> TRUE, bytes |-> out]
              ELSE A2B(s, i + 1, quad, left,
                       IF quad >= 2 THEN pads + 1 ELSE pads, out)
         ELSE IF ~IsB64(ch)
         THEN A2B(s, i + 1, quad, left, pads, out)
         ELSE LET v == B64Val(ch) IN
              CASE quad = 0 -> A2B(s, i + 1, 1, v, 0, out)
                [] quad = 1 -> A2B(s, i + 1, 2, v % 16, 0,
                                   Append(out, left * 4 + v \div 16))
                [] quad = 2 -> A2B(s, i + 1, 3, v % 4, 0,
                                   Append(out, left * 16 + v \div 4))
                [] quad = 3 -> A2B(s, i + 1, 0, 0, 0,
                                   Append(out, left * 64 + v))

\* base64.b64decode(s): [ok |-> TRUE, bytes] or [ok |-> FALSE, error].
b64decode(s) == A2B(s, 1, 0, 0, 0, <<>>)

\* base64.b64encode(bytes).decode(): three bytes to four characters, with
\* "=" padding for a final group of one or two bytes.
RECURSIVE b64encode(_)
b64encode(bytes) ==
    LET ch(v) == B64Alphabet[v + 1] IN
    IF Len(bytes) = 0 THEN <<>>
    ELSE IF Len(bytes) = 1
    THEN << ch(bytes[1] \div 4), ch((bytes[1] % 4) * 16), "=", "=" >>
    ELSE IF Len(bytes) = 2
    THEN << ch(bytes[1] \div 4),
            ch((bytes[1] % 4) * 16 + bytes[2] \div 16),
            ch((bytes[2] % 16) * 4), "=" >>
    ELSE << ch(bytes[1] \div 4),
            ch((bytes[1] % 4) * 16 + bytes[2] \div 16),
            ch((bytes[2] % 16) * 4 + bytes[3] \div 64),
            ch(bytes[3] % 64) >> \o b64encode(SubSeq(bytes, 4, Len(bytes)))

-----------------------------------------------------------------------------
(* str.split(',') and the prefix stripping of trace_image / inpaint_image. *)

HasComma(s) == \E i \in 1..Len(s) : s[i] = ","

\* Position of the first comma of s at or after position from, or
\* Len(s) + 1 when there is none.
RECURSIVE NextComma(_, _)
NextComma(s, from) ==
    IF from > Len(s) THEN Len(s) + 1
    ELSE IF s[from] = "," THEN from
    ELSE NextComma(s, from + 1)

\* s.split(','): the pieces between the commas, in order.
RECURSIVE Split(_)
Split(s) ==
    LET c == NextComma(s, 1) IN
    IF c > Len(s) THEN <<s>>
    ELSE <<SubSeq(s, 1, c - 1)>> \o Split(SubSeq(s, c + 1, Len(s)))

\* data.split(',')[1] if ',' in data else data
StripPrefix(data) == IF HasComma(data) THEN Split(data)[2] ELSE data

-----------------------------------------------------------------------------
(* Pillow, as far as main.py uses it.  An encoded image is abstracted to   *)
(* its header: one byte naming the container and pixel mode, one byte of   *)
(* width and one of height.  Image.open reads only the header.             *)

\* str(e) of the UnidentifiedImageError: Pillow formats the file object
\* with %r, which prints the address the allocator gave the BytesIO.
CannotIdentify(addr) ==
    "cannot identify image file <_io.BytesIO object at 0x" \o ToString(addr) \o ">"

\* Image.open(io.BytesIO(bytes)), the BytesIO allocated at addr.
ImageOpen(bytes, addr) ==
    IF Len(bytes) >= 3 /\ bytes[1] \in {4, 8, 12} /\ bytes[2] > 0 /\ bytes[3] > 0
    THEN [ok |-> TRUE,
          format |-> IF bytes[1] = 4 THEN "PNG" ELSE "JPEG",
          mode |-> IF bytes[1] = 12 THEN "CMYK" ELSE "RGB",
          width |-> bytes[2],
          height |-> bytes[3]]
    ELSE [ok |-> FALSE, error |-> CannotIdentify(addr)]

\* A writer that transposes the image.
SavePNG_Transposed(image) ==
    IF image.mode = "RGB"
    THEN [ok |-> TRUE, bytes |-> <<4, image.height, image.width>>]
    ELSE [ok |-> FALSE, error |-> "cannot write mode " \o image.mode \o " as PNG"]

\* image.save(buffer, format='PNG'); buffer.getvalue().  The PNG writer
\* has no CMYK mode and raises OSError for it.
SavePNG(image) ==
    IF image.mode = "RGB"
    THEN [ok |-> TRUE, bytes |-> <<4, image.width, image.height>>]
    ELSE [ok |-> FALSE, error |-> "cannot write mode " \o image.mode \o " as PNG"]

-----------------------------------------------------------------------------
(* Responses and log records. *)

NoReq == [route |-> "none"]

NoResp == [status |-> 0]

\* A handler's return value, serialised by FastAPI with status 200.
OK(body) == [status |-> 200, body |-> body]

\* An error envelope reported as a client error.
HTTPException400(detail) == [status |-> 400, detail |-> detail]

\* raise HTTPException(status_code=500, detail=str(e))
HTTPException(detail) == [status |-> 500, detail |-> detail]

\* logger.info(msg) / logger.error(msg) under basicConfig(level=INFO).
Info(msg) == [level |-> "INFO", msg |-> msg]

Error(msg) == [level |-> "ERROR", msg |-> msg]

\* An except clause that raises without logging.
ExceptSilent(what, e, logged) ==
    [response |-> HTTPException(e), logged |-> logged]

\* The except clause shared by the five POST handlers: log, then raise.
Except(what, e, logged) ==
    [response |-> HTTPException(e),
     logged |-> Append(logged, Error(what \o e))]

Return(body, logged) == [response |-> OK(body), logged |-> logged]

-----------------------------------------------------------------------------
(* The handlers, each as the function from its request (and, where an      *)
(* object address leaks into the output, that address) to its response and *)
(* the log records it emits.                                               *)

root == Return([message |-> "CanvasAI AI Services", version |-> "1.0.0"], <<>>)

health_check == Return([status |-> "healthy", service |-> "ai"], <<>>)

\* A layout whose artboard has width and height exchanged.
generate_layout_swapped(request) ==
    LET logged == <<Info("Generating layout for prompt: " \o request.prompt)>>
        scene_graph ==
            [artboard |-> [id |-> "artboard-1",
                           width |-> request.height,
                           height |-> request.width,
                           backgroundColor |-> "#FFFFFF"],
             elements |-> <<
                [id |-> "text-1", type |-> "text",
                 content |-> "Generated from: " \o request.prompt],
                [id |-> "rect-1", type |-> "rectangle"] >>]
    IN  Return([scene_graph |-> scene_graph, preview_image |-> None], logged)

generate_layout(request) ==
    LET logged == <<Info("Generating layout for prompt: " \o request.prompt)>>
        scene_graph ==
            [artboard |-> [id |-> "artboard-1",
                           width |-> request.width,
                           height |-> request.height,
                           backgroundColor |-> "#FFFFFF"],
             elements |-> <<
                [id |-> "text-1",
                 type |-> "text",
                 content |-> "Generated from: " \o request.prompt,
                 position |-> [x |-> 50, y |-> 50],
                 style |-> [fontSize |-> 24, fontFamily |-> "Inter",
                            color |-> "#333333"]],
                [id |-> "rect-1",
                 type |-> "rectangle",
                 position |-> [x |-> 50, y |-> 100],
                 size |-> [width |-> 200, height |-> 100],
                 style |-> [fill |-> "#3B82F6", stroke |-> "none"]] >>]
    IN  Return([scene_graph |-> scene_graph, preview_image |-> None], logged)

\* Whitespace-only pieces, as str.strip() sees them.
IsBlank(piece) ==
    piece \in {"", "\n", "\n        ", "\n            ", "\n                "}

\* A strip that removes trailing blanks only (str.rstrip).
RECURSIVE StripRight(_)
StripRight(pieces) ==
    IF Len(pieces) = 0 THEN pieces
    ELSE IF IsBlank(pieces[Len(pieces)])
    THEN StripRight(SubSeq(pieces, 1, Len(pieces) - 1))
    ELSE pieces

\* str.strip() on a sequence of pieces whose only blank text is in whole pieces.
RECURSIVE Strip(_)
Strip(pieces) ==
    IF Len(pieces) = 0 THEN pieces
    ELSE IF IsBlank(pieces[1]) THEN Strip(Tail(pieces))
    ELSE IF IsBlank(pieces[Len(pieces)]) THEN Strip(SubSeq(pieces, 1, Len(pieces) - 1))
    ELSE pieces

\* The f-string of trace_image: literal segments and formatted fields.
SvgTemplate(image) ==
    << "\n        ",
       "<svg width=\"", ToString(image.width),
       "\" height=\"", ToString(image.height),
       "\" xmlns=\"http://www.w3.org/2000/svg\">",
       "\n            ",
       "<rect x=\"10\" y=\"10\" width=\"", ToString(image.width - 20),
       "\" height=\"", ToString(image.height - 20),
       "\" \n                  fill=\"none\" stroke=\"#000000\" stroke-width=\"2\"/>",
       "\n            ",
       "<text x=\"", ToString(image.width \div 2),
       "\" y=\"", ToString(image.height \div 2),
       "\" \n                  text-anchor=\"middle\" font-family=\"Arial\" font-size=\"16\">",
       "\n                ",
       "Traced Image",
       "\n            ",
       "</text>",
       "\n        ",
       "</svg>",
       "\n        " >>

trace_image(request, addr) ==
    LET logged == <<Info("Tracing image to SVG")>>
        image_data == b64decode(StripPrefix(request.image_data))
        image == ImageOpen(image_data.bytes, addr)
    IN  IF ~image_data.ok THEN Except("Error tracing image: ", image_data.error, logged)
        ELSE IF ~image.ok THEN Except("Error tracing image: ", image.error, logged)
        ELSE Return([svg_content |-> Strip(SvgTemplate(image)),
                     confidence |-> 85],       \* 0.85, in hundredths
                    logged)

\* A palette that starts from the requested base colour.
generate_palette_based(request) ==
    LET logged == <<Info("Generating color palette")>>
        base_color == IF Truthy(request.base_color)
                      THEN request.base_color[1] ELSE "#3B82F6"
        colors == <<base_color, "#1E40AF", "#93C5FD", "#F59E0B", "#6B7280">>
    IN  Return([colors |-> SliceTo(colors, request.count),
                harmony_type |-> "complementary"],
               logged)

generate_palette(request) ==
    LET logged == <<Info("Generating color palette")>>
        base_color == IF Truthy(request.base_color)
                      THEN request.base_color[1] ELSE "#3B82F6"
        colors == <<"#3B82F6", "#1E40AF", "#93C5FD", "#F59E0B", "#6B7280">>
    IN  Return([colors |-> SliceTo(colors, request.count),
                harmony_type |-> "complementary"],
               logged)

inpaint_image(request, addr) ==
    LET logged == <<Info("Inpainting image with prompt: " \o request.prompt)>>
        image_data == b64decode(StripPrefix(request.image_data))
        mask_data == b64decode(StripPrefix(request.mask_data))
        image == ImageOpen(image_data.bytes, addr)
        buffer == SavePNG(image)
        image_base64 == b64encode(buffer.bytes)
        DataUri == <<"d","a","t","a",":","i","m","a","g","e","/","p","n","g",
                     ";","b","a","s","e","6","4",",">>
    IN  IF ~image_data.ok THEN Except("Error inpainting image: ", image_data.error, logged)
        ELSE IF ~mask_data.ok THEN Except("Error inpainting image: ", mask_data.error, logged)
        ELSE IF ~image.ok THEN Except("Error inpainting image: ", image.error, logged)
        ELSE IF ~buffer.ok THEN Except("Error inpainting image: ", buffer.error, logged)
        ELSE Return([image_data |-> DataUri \o image_base64], logged)

\* A relevance that does not fall with the index.
RelevanceFlat(i) == 9 - (0 * 1)

\* 0.9 - (i * 0.1), in tenths.
Relevance(i) == 9 - (i * 1)

search_assets(request) ==
    LET logged == <<Info("Searching assets for: " \o request.query)>>
        idx == Range(Min(request.limit, 5))
        results == [k \in 1..Len(idx) |->
                      [id |-> "asset-" \o ToString(idx[k]),
                       url |-> "https://picsum.photos/200/200?random=" \o ToString(idx[k]),
                       title |-> "Sample Asset " \o ToString(idx[k]),
                       tags |-> <<"sample", "image">>,
                       relevance |-> Relevance(idx[k])]]
    IN  Return([results |-> results, total |-> Len(results)], logged)

-----------------------------------------------------------------------------
(* Requests.  A request record is what FastAPI hands the handler after     *)
(* validating the body against the pydantic model of the route.            *)

Clients == 1..NumClients

Addrs == 1..NumAddrs

\* Characters of the generated payloads: three base64 digits (B, C, D have
\* the values 1, 2, 3), the pad, a character outside the alphabet, the comma.
Chars == {"B", "C", "D", "=", "!", ","}

\* Characters of the generated mask payloads.
MaskChars == {"B", ","}

Prompts == {"", "logo"}

Sizes == {-1, 0, 600, 800}

Counts == (0 - MaxCount)..MaxCount

LayoutRequests ==
    [route : {"/ai/layout"}, prompt : Prompts, width : Sizes, height : Sizes,
     style : {Some("modern")}]

TraceRequests == [route : {"/ai/trace"}, image_data : SeqsUpTo(Chars, MaxLen)]

PaletteRequests ==
    [route : {"/ai/palette"}, image_data : {None, Some("BBBB")},
     base_color : {None, Some(""), Some("#FF0000")}, count : Counts]

InpaintRequests ==
    [route : {"/ai/inpaint"},
     image_data : SeqsUpTo(Chars, MaxImageLen),
     mask_data : SeqsUpTo(MaskChars, MaxMaskLen),
     prompt : Prompts]

SearchRequests == [route : {"/ai/search"}, query : Prompts, limit : Counts]

GetRequests == {[route |-> "/"], [route |-> "/health"]}

\* Every request of the bounded input space.
Requests ==
    LayoutRequests \cup TraceRequests \cup PaletteRequests \cup InpaintRequests
        \cup SearchRequests \cup GetRequests

\* The requests the clients of the server specification send.
ClientRequests ==
    { [route |-> "/"], [route |-> "/health"],
      [route |-> "/ai/layout", prompt |-> "logo", width |-> 800, height |-> 600,
       style |-> Some("modern")],
      [route |-> "/ai/trace", image_data |-> <<"!", "B", "B", "B", "B">>],
      [route |-> "/ai/trace", image_data |-> <<"B">>],
      [route |-> "/ai/trace", image_data |-> <<>>],
      [route |-> "/ai/palette", image_data |-> None, base_color |-> None, count |-> 3],
      [route |-> "/ai/inpaint", image_data |-> <<",", "C", "B", "B", "B">>,
       mask_data |-> <<>>, prompt |-> "logo"],
      [route |-> "/ai/inpaint", image_data |-> <<"B", "B", "=", "=">>,
       mask_data |-> <<>>, prompt |-> "logo"],
      [route |-> "/ai/search", query |-> "logo", limit |-> 2] }

-----------------------------------------------------------------------------
(* State: req[c] is the request connection c has in flight (NoReq when it  *)
(* has none), resp[c] the response produced for it (NoResp until the       *)
(* handler has run), log the records emitted through the module logger.    *)

Pending(c) == req[c] # NoReq /\ resp[c] = NoResp

\* The handler's outcome becomes the response of c and its records are
\* appended to the process-wide log.
Complete(c, out) ==
    /\ resp' = [resp EXCEPT ![c] = out.response]
    /\ log' = log \o out.logged
    /\ UNCHANGED req

\* A client sends a request on an idle connection.
Receive(c, r) ==
    /\ req[c] = NoReq
    /\ Len(log) + 2 * (Cardinality({d \in Clients : Pending(d)}) + 1) <= MaxLog
    /\ req' = [req EXCEPT ![c] = r]
    /\ UNCHANGED <<resp, log>>

GetRoot(c) ==
    /\ Pending(c) /\ req[c].route = "/"
    /\ Complete(c, root)

GetHealth(c) ==
    /\ Pending(c) /\ req[c].route = "/health"
    /\ Complete(c, health_check)

PostLayout(c) ==
    /\ Pending(c) /\ req[c].route = "/ai/layout"
    /\ Complete(c, generate_layout(req[c]))

PostTrace(c) ==
    /\ Pending(c) /\ req[c].route = "/ai/trace"
    /\ \E addr \in Addrs : Complete(c, trace_image(req[c], addr))

PostPalette(c) ==
    /\ Pending(c) /\ req[c].route = "/ai/palette"
    /\ Complete(c, generate_palette(req[c]))

PostInpaint(c) ==
    /\ Pending(c) /\ req[c].route = "/ai/inpaint"
    /\ \E addr \in Addrs : Complete(c, inpaint_image(req[c], addr))

PostSearch(c) ==
    /\ Pending(c) /\ req[c].route = "/ai/search"
    /\ Complete(c, search_assets(req[c]))

\* The response is written to the connection, which becomes idle.
Deliver(c) ==
    /\ resp[c] # NoResp
    /\ req' = [req EXCEPT ![c] = NoReq]
    /\ resp' = [resp EXCEPT ![c] = NoResp]
    /\ UNCHANGED log

Handle(c) ==
    \/ GetRoot(c)
    \/ GetHealth(c)
    \/ PostLayout(c)
    \/ PostTrace(c)
    \/ PostPalette(c)
    \/ PostInpaint(c)
    \/ PostSearch(c)

\* The server: connections send requests, handlers run, responses leave.
Init ==
    /\ req = [c \in Clients |-> NoReq]
    /\ resp = [c \in Clients |-> NoResp]
    /\ log = <<>>

Next ==
    \E c \in Clients :
        \/ \E r \in ClientRequests : Receive(c, r)
        \/ Handle(c)
        \/ Deliver(c)

Spec == Init /\ [][Next]_vars

\* One request of the bounded input space, handled once: the handlers as
\* functions of their input.
InitOne ==
    /\ \E r \in Requests : req = [c \in Clients |-> IF c = 1 THEN r ELSE NoReq]
    /\ resp = [c \in Clients |-> NoResp]
    /\ log = <<>>

NextOne == \E c \in Clients : Handle(c)

SpecOne == InitOne /\ [][NextOne]_vars

-----------------------------------------------------------------------------
(* Properties. *)

\* Connection c holds a request together with the response produced for it.
Done(c) == req[c] # NoReq /\ resp[c] # NoResp

Answered(c, route) == Done(c) /\ req[c].route = route

\* The palette the specification lists, in order.
FixedColors == <<"#3B82F6", "#1E40AF", "#93C5FD", "#F59E0B", "#6B7280">>

\* C1: POST /ai/palette with count = c >= 0 succeeds with exactly the first
\* min(c, 5) entries of the fixed list, in order, and harmony_type
\* "complementary", whatever base_color and image_data are.
C1_PaletteTruncates ==
    \A c \in Clients :
        Answered(c, "/ai/palette") /\ req[c].count >= 0 =>
            /\ resp[c].status = 200
            /\ Len(resp[c].body.colors) = Min(req[c].count, 5)
            /\ resp[c].body.colors = SubSeq(FixedColors, 1, Min(req[c].count, 5))
            /\ resp[c].body.harmony_type = "complementary"

\* A palette request with a base colour and an image, truncated to 3 entries.
C1_Witness ==
    \E c \in Clients :
        /\ Answered(c, "/ai/palette")
        /\ req[c].count = 3
        /\ req[c].base_color = Some("#FF0000")
        /\ req[c].image_data # None
        /\ resp[c].body.colors = <<"#3B82F6", "#1E40AF", "#93C5FD">>

\* C9: negative count and limit are neither rejected nor clamped to zero:
\* the palette loses its last |c| entries (length max(0, 5 + c)), and the
\* search returns no result with total 0.
C9_NegativeAccepted ==
    \A c \in Clients :
        /\ Answered(c, "/ai/palette") /\ req[c].count < 0 =>
              /\ resp[c].status = 200
              /\ Len(resp[c].body.colors) = Max(0, 5 + req[c].count)
              /\ \A i \in 1..Len(resp[c].body.colors) :
                    resp[c].body.colors[i] = FixedColors[i]
        /\ Answered(c, "/ai/search") /\ req[c].limit < 0 =>
              /\ resp[c].status = 200
              /\ resp[c].body.results = <<>>
              /\ resp[c].body.total = 0

\* count = -2 leaves the first three colours.
C9_Witness ==
    \E c \in Clients :
        /\ Answered(c, "/ai/palette")
        /\ req[c].count = -2
        /\ Len(resp[c].body.colors) = 3

\* C2 as stated: the number of results is min(l, 5) for every integer l.
C2_Original ==
    \A c \in Clients :
        Answered(c, "/ai/search") =>
            /\ Len(resp[c].body.results) = Min(req[c].limit, 5)
            /\ resp[c].body.total = Len(resp[c].body.results)
            /\ \A i \in 1..Len(resp[c].body.results) :
                  resp[c].body.results[i].relevance = 9 - (i - 1)

\* C2, amended: the number of results is max(0, min(l, 5)); total equals
\* it; the result at index i has relevance 0.9 - 0.1*i (here in tenths),
\* strictly decreasing with the index.
C2_SearchCount ==
    \A c \in Clients :
        Answered(c, "/ai/search") =>
            LET results == resp[c].body.results IN
            /\ resp[c].status = 200
            /\ Len(results) = Max(0, Min(req[c].limit, 5))
            /\ resp[c].body.total = Len(results)
            /\ \A i \in 1..Len(results) : results[i].relevance = 9 - (i - 1)
            /\ \A i, j \in 1..Len(results) :
                  i < j => results[i].relevance > results[j].relevance

\* A search capped at five results, the last with relevance 0.5.
C2_Witness ==
    \E c \in Clients :
        /\ Answered(c, "/ai/search")
        /\ req[c].limit = 7
        /\ Len(resp[c].body.results) = 5
        /\ resp[c].body.results[5].relevance = 5

\* C3: POST /ai/layout succeeds for any width W and height H; the artboard
\* is W by H, the elements are text-1 then rect-1, the text echoes the
\* prompt and preview_image is null.
C3_LayoutEchoes ==
    \A c \in Clients :
        Answered(c, "/ai/layout") =>
            LET g == resp[c].body.scene_graph IN
            /\ resp[c].status = 200
            /\ g.artboard.width = req[c].width
            /\ g.artboard.height = req[c].height
            /\ Len(g.elements) = 2
            /\ g.elements[1].id = "text-1"
            /\ g.elements[2].id = "rect-1"
            /\ g.elements[1].content = "Generated from: " \o req[c].prompt
            /\ resp[c].body.preview_image = None

\* A layout with a negative width and a different height.
C3_Witness ==
    \E c \in Clients :
        /\ Answered(c, "/ai/layout")
        /\ req[c].width = -1 /\ req[c].height = 800 /\ req[c].prompt = "logo"
        /\ resp[c].body.scene_graph.artboard.width = -1
        /\ resp[c].body.scene_graph.artboard.height = 800

\* What a client obtains from a data URI: the text after its first comma,
\* base64-decoded and opened as an image.
AfterFirstComma(s) == SubSeq(s, NextComma(s, 1) + 1, Len(s))

ClientImage(uri) ==
    LET data == b64decode(AfterFirstComma(uri)) IN
    IF data.ok THEN ImageOpen(data.bytes, 1) ELSE [ok |-> FALSE]

\* The image the handler obtains from a payload, when it obtains one.
Decoded(payload) == b64decode(StripPrefix(payload))

HasImage(payload) ==
    Decoded(payload).ok /\ ImageOpen(Decoded(payload).bytes, 1).ok

ImageOf(payload) == ImageOpen(Decoded(payload).bytes, 1)

C5_TraceDimensions ==
    \A c \in Clients :
        Answered(c, "/ai/trace") /\ HasImage(req[c].image_data) =>
            LET svg == resp[c].body.svg_content
                image == ImageOf(req[c].image_data)
            IN  /\ resp[c].status = 200
                /\ SubSeq(svg, 1, 5) = << "<svg width=\"", ToString(image.width),
                                          "\" height=\"", ToString(image.height),
                                          "\" xmlns=\"http://www.w3.org/2000/svg\">" >>
                /\ resp[c].body.confidence = 85

\* A prefixed payload holding an image of 16 by 65 pixels is traced.
C5_Witness ==
    \E c \in Clients :
        /\ Answered(c, "/ai/trace")
        /\ req[c].image_data = <<",", "B", "B", "B", "B">>
        /\ resp[c].status = 200
        /\ resp[c].body.svg_content[2] = "16"
        /\ resp[c].body.svg_content[4] = "65"

\* C8: the text that is base64-decoded is everything after the first comma
\* of the payload (the whole payload when it has no comma), however many
\* commas there are.  Observed through the response: a decoding error of
\* that text is the detail returned, and an image in it is the one traced.
C8_AfterFirstComma ==
    \A c \in Clients :
        Answered(c, "/ai/trace") =>
            LET text == IF HasComma(req[c].image_data)
                        THEN AfterFirstComma(req[c].image_data)
                        ELSE req[c].image_data
                data == b64decode(text)
                image == ImageOpen(data.bytes, 1)
            IN  /\ ~data.ok => resp[c] = HTTPException(data.error)
                /\ data.ok /\ image.ok =>
                      /\ resp[c].status = 200
                      /\ resp[c].body.svg_content[2] = ToString(image.width)
                      /\ resp[c].body.svg_content[4] = ToString(image.height)
                /\ data.ok /\ ~image.ok =>
                      resp[c] \in {HTTPException(CannotIdentify(a)) : a \in Addrs}

\* Well-formed base64 (RFC 4648): only digits of the alphabet, in groups of
\* four, with "=" padding only at the end of the last group.
WellFormedB64(s) ==
    /\ Len(s) % 4 = 0
    /\ \A i \in 1..Len(s) :
          \/ IsB64(s[i])
          \/ /\ s[i] = "="
             /\ i >= Len(s) - 1
             /\ i = Len(s) - 1 => s[Len(s)] = "="

ImageRoutes == {"/ai/trace", "/ai/inpaint"}

\* C6 as stated: an image payload that is malformed base64, or that decodes
\* to bytes that are no image, always ends in HTTP 500 with a detail.
C6_Original ==
    \A c \in Clients :
        /\ Done(c)
        /\ req[c].route \in ImageRoutes
        /\ \/ ~WellFormedB64(StripPrefix(req[c].image_data))
           \/ ~HasImage(req[c].image_data)
        => /\ resp[c].status = 500
           /\ "detail" \in DOMAIN resp[c]

\* The exception texts a payload that yields no image can raise.
ImageErrors(payload) ==
    IF ~Decoded(payload).ok THEN {Decoded(payload).error}
    ELSE {CannotIdentify(a) : a \in Addrs}

\* The request raises nowhere in its handler.
Succeeds(r) ==
    CASE r.route = "/ai/trace" -> HasImage(r.image_data)
      [] r.route = "/ai/inpaint" ->
            /\ HasImage(r.image_data)
            /\ Decoded(r.mask_data).ok
            /\ ImageOf(r.image_data).mode = "RGB"
      [] OTHER -> TRUE

\* C6, amended: whenever base64 decoding of the image payload raises (a
\* wrong number of digits or missing padding; characters outside the
\* alphabet are discarded and do not make it raise) or the decoded bytes
\* are no image, the response is HTTP 500 with the exception text as
\* detail, never a success and never a 4xx; and whatever failures came
\* before, every request that raises nowhere is answered with 200.
C6_FailureIs500 ==
    \A c \in Clients :
        /\ Done(c) /\ req[c].route \in ImageRoutes /\ ~HasImage(req[c].image_data) =>
              /\ resp[c].status = 500
              /\ DOMAIN resp[c] = {"status", "detail"}
              /\ resp[c].detail \in ImageErrors(req[c].image_data)
        /\ Done(c) /\ Succeeds(req[c]) => resp[c].status = 200

\* A trace request is answered with 200 after an earlier request failed:
\* the last log record is the INFO of the success, an ERROR precedes it.
C6_Witness ==
    \E c \in Clients :
        /\ Answered(c, "/ai/trace")
        /\ resp[c].status = 200
        /\ Len(log) >= 3
        /\ log[Len(log)] = Info("Tracing image to SVG")
        /\ log[Len(log) - 1].level = "ERROR"
        /\ \E d \in Clients : d # c /\ Done(d) /\ resp[d].status = 500

\* C7: the response is a function of the request alone: two connections
\* holding the same request hold the same response, whatever was served
\* before and in whatever order.
C7_Stateless ==
    \A c, d \in Clients :
        Done(c) /\ Done(d) /\ req[c] = req[d] => resp[c] = resp[d]

\* The body FastAPI serialises for a successful call of each route.
Schema(route) ==
    CASE route = "/" -> {"message", "version"}
      [] route = "/health" -> {"status", "service"}
      [] route = "/ai/layout" -> {"scene_graph", "preview_image"}
      [] route = "/ai/trace" -> {"svg_content", "confidence"}
      [] route = "/ai/palette" -> {"colors", "harmony_type"}
      [] route = "/ai/inpaint" -> {"image_data"}
      [] route = "/ai/search" -> {"results", "total"}

\* The prefix of the error record each handler logs.
ErrorPrefix(route) ==
    CASE route = "/ai/layout" -> "Error generating layout: "
      [] route = "/ai/trace" -> "Error tracing image: "
      [] route = "/ai/palette" -> "Error generating palette: "
      [] route = "/ai/inpaint" -> "Error inpainting image: "
      [] route = "/ai/search" -> "Error searching assets: "
      [] OTHER -> ""

\* C10: every request a handler accepts ends in exactly one outcome, a full
\* success response of the route's schema or one HTTP 500 with one detail;
\* the step that produces a failure has appended the ERROR record of that
\* request to the log; a response, once produced, is never replaced and the
\* request is never run again.
C10_OneOutcome ==
    [][\A c \in Clients :
          /\ resp[c] = NoResp /\ resp'[c] # NoResp =>
                \/ /\ resp'[c].status = 200
                   /\ DOMAIN resp'[c] = {"status", "body"}
                   /\ DOMAIN resp'[c].body = Schema(req[c].route)
                   /\ Len(log') <= Len(log) + 1
                   /\ \A i \in Len(log) + 1..Len(log') : log'[i].level = "INFO"
                \/ /\ resp'[c].status = 500
                   /\ DOMAIN resp'[c] = {"status", "detail"}
                   /\ Len(log') = Len(log) + 2
                   /\ log'[Len(log')] =
                         Error(ErrorPrefix(req[c].route) \o resp'[c].detail)
          /\ resp[c] # NoResp =>
                \/ resp'[c] = resp[c] /\ req'[c] = req[c]
                \/ resp'[c] = NoResp /\ req'[c] = NoReq /\ log' = log
      ]_vars

\* An inpaint request has failed and its ERROR record is the last of the log.
C10_Witness ==
    \E c \in Clients :
        /\ Answered(c, "/ai/inpaint")
        /\ resp[c].status = 500
        /\ log[Len(log)] = Error("Error inpainting image: " \o resp[c].detail)

====
